---------------------------- MODULE Spec2Model ----------------------------
(***************************************************************************)
(* Timezone converter (Raycast extension): the zone resolver, the query   *)
(* parser, the time converter and the target assembly of                  *)
(* src/src/timezone-utils.ts over the tables of src/src/timezone-data.ts, *)
(* and the ConvertTime command of src/src/convert-time.tsx that calls     *)
(* them.                                                                   *)
(*                                                                         *)
(* JavaScript strings are TLA+ strings; TLC evaluates Len, SubSeq and \o  *)
(* on them, so every string function below works character by character  *)
(* as the source does.  An optional value (string | undefined) is the     *)
(* empty tuple << >> when undefined and the one-element tuple <<v>> when  *)
(* set.                                                                    *)
(***************************************************************************)
EXTENDS Integers, Sequences, FiniteSets, TLC

VARIABLES
    now,                \* the host clock: today's UTC date [year, month, day]
    localIana,          \* Intl.DateTimeFormat().resolvedOptions().timeZone
    favoriteTimezones,  \* the favoriteTimezones preference string
    mounted,            \* the ConvertTime command has rendered once
    searchText,         \* the command's searchText state
    toasts,             \* the messages of the toasts shown so far
    op,                 \* the operation that ran last
    args,               \* its arguments
    ret                 \* what it returned

vars == <<now, localIana, favoriteTimezones, mounted, searchText, toasts, op, args, ret>>

host == <<now, localIana, favoriteTimezones>>

command == <<mounted, searchText, toasts>>

(***************************************************************************)
(* JavaScript string primitives                                            *)
(***************************************************************************)

UpperLetters == "ABCDEFGHIJKLMNOPQRSTUVWXYZ"

LowerLetters == "abcdefghijklmnopqrstuvwxyz"

Digits == "0123456789"

charAt(s, i) == IF i >= 0 /\ i < Len(s) THEN SubSeq(s, i + 1, i + 1) ELSE ""

\* s.slice(from, to) for from, to >= 0: both are clamped to the length
slice(s, from, to) ==
    LET a == IF from > Len(s) THEN Len(s) ELSE from
        b == IF to > Len(s) THEN Len(s) ELSE to
    IN  IF a >= b THEN "" ELSE SubSeq(s, a + 1, b)

sliceFrom(s, from) == slice(s, from, Len(s))

\* the characters of s, as a set of one-character strings
CharsOf(s) == { SubSeq(s, i, i) : i \in 1..Len(s) }

\* position (1-based) of the one-character string c in s, 0 when absent
IndexIn(c, s) ==
    IF \E i \in 1..Len(s) : SubSeq(s, i, i) = c
    THEN CHOOSE i \in 1..Len(s) : SubSeq(s, i, i) = c
    ELSE 0

ToLowerMap ==
    [c \in CharsOf(UpperLetters) |->
        SubSeq(LowerLetters, IndexIn(c, UpperLetters), IndexIn(c, UpperLetters))]

ToUpperMap ==
    [c \in CharsOf(LowerLetters) |->
        SubSeq(UpperLetters, IndexIn(c, LowerLetters), IndexIn(c, LowerLetters))]

DigitValue == [c \in CharsOf(Digits) |-> IndexIn(c, Digits) - 1]

WordChars == CharsOf(UpperLetters) \cup CharsOf(LowerLetters) \cup CharsOf(Digits) \cup {"_"}

LowerChar(c) == IF c \in DOMAIN ToLowerMap THEN ToLowerMap[c] ELSE c

UpperChar(c) == IF c \in DOMAIN ToUpperMap THEN ToUpperMap[c] ELSE c

RECURSIVE toLowerCase(_)
toLowerCase(s) ==
    IF Len(s) = 0 THEN ""
    ELSE LowerChar(SubSeq(s, 1, 1)) \o toLowerCase(SubSeq(s, 2, Len(s)))

RECURSIVE toUpperCase(_)
toUpperCase(s) ==
    IF Len(s) = 0 THEN ""
    ELSE UpperChar(SubSeq(s, 1, 1)) \o toUpperCase(SubSeq(s, 2, Len(s)))

\* \s of a regular expression and the white space of trim(): the model's
\* alphabet has the space and the tab
IsSpace(c) == c = " " \/ c = "\t"

\* \d of a regular expression
IsDigit(c) == c \in DOMAIN DigitValue

\* \w of a regular expression: [A-Za-z0-9_]
IsWordChar(c) == c \in WordChars

RECURSIVE trimStart(_)
trimStart(s) ==
    IF Len(s) > 0 /\ IsSpace(SubSeq(s, 1, 1))
    THEN trimStart(SubSeq(s, 2, Len(s)))
    ELSE s

RECURSIVE trimEnd(_)
trimEnd(s) ==
    IF Len(s) > 0 /\ IsSpace(SubSeq(s, Len(s), Len(s)))
    THEN trimEnd(SubSeq(s, 1, Len(s) - 1))
    ELSE s

trim(s) == trimEnd(trimStart(s))

\* s.split(sep) for a one-character separator: always at least one piece
RECURSIVE split(_, _)
split(s, sep) ==
    LET i == IndexIn(sep, s)
    IN  IF i = 0 THEN <<s>>
        ELSE <<SubSeq(s, 1, i - 1)>> \o split(SubSeq(s, i + 1, Len(s)), sep)

RECURSIVE join(_, _)
join(parts, sep) ==
    IF Len(parts) = 0 THEN ""
    ELSE IF Len(parts) = 1 THEN parts[1]
    ELSE parts[1] \o sep \o join(Tail(parts), sep)

\* parseInt(s, 10) of a string of decimal digits
RECURSIVE parseInt(_)
parseInt(s) ==
    IF Len(s) = 0 THEN 0
    ELSE 10 * parseInt(SubSeq(s, 1, Len(s) - 1))
         + DigitValue[SubSeq(s, Len(s), Len(s))]

\* String(n) of a natural number
RECURSIVE String(_)
String(n) ==
    IF n < 10 THEN SubSeq(Digits, n + 1, n + 1)
    ELSE String(n \div 10) \o SubSeq(Digits, (n % 10) + 1, (n % 10) + 1)

\* s.padStart(2, "0")
padStart2(s) == IF Len(s) < 2 THEN "0" \o s ELSE s

\* a property read obj[key] of an object literal: an own entry, else what
\* Object.prototype gives.  The only all-lowercase names it answers are
\* "constructor" (the function Object) and "__proto__" (Object.prototype
\* itself); both are truthy and neither is a string.  They are written as
\* the text JavaScript's String() makes of them.
ObjectPrototype ==
    "constructor" :> "function Object() { [native code] }" @@
    "__proto__" :> "[object Object]"

has(obj, key) == key \in DOMAIN obj \/ key \in DOMAIN ObjectPrototype

get(obj, key) == IF key \in DOMAIN obj THEN obj[key] ELSE ObjectPrototype[key]

(***************************************************************************)
(* src/src/timezone-data.ts                                                *)
(***************************************************************************)

ABBREVIATION_MAP ==
    "utc" :> <<"UTC">> @@
    "gmt" :> <<"Etc/GMT">> @@
    "est" :> <<"America/New_York">> @@
    "edt" :> <<"America/New_York">> @@
    "cst" :> <<"America/Chicago", "Asia/Shanghai">> @@
    "cdt" :> <<"America/Chicago">> @@
    "mst" :> <<"America/Denver">> @@
    "mdt" :> <<"America/Denver">> @@
    "pst" :> <<"America/Los_Angeles">> @@
    "pdt" :> <<"America/Los_Angeles">> @@
    "akst" :> <<"America/Anchorage">> @@
    "akdt" :> <<"America/Anchorage">> @@
    "hst" :> <<"Pacific/Honolulu">> @@
    "ast" :> <<"America/Halifax", "Asia/Riyadh">> @@
    "nst" :> <<"America/St_Johns">> @@
    "ndt" :> <<"America/St_Johns">> @@
    "cet" :> <<"Europe/Berlin">> @@
    "cest" :> <<"Europe/Berlin">> @@
    "eet" :> <<"Europe/Bucharest">> @@
    "eest" :> <<"Europe/Bucharest">> @@
    "wet" :> <<"Europe/Lisbon">> @@
    "west" :> <<"Europe/Lisbon">> @@
    "gmt_plus_1" :> <<"Europe/London">> @@
    "bst" :> <<"Europe/London", "Asia/Dhaka">> @@
    "ist" :> <<"Asia/Kolkata", "Asia/Jerusalem", "Europe/Dublin">> @@
    "msk" :> <<"Europe/Moscow">> @@
    "jst" :> <<"Asia/Tokyo">> @@
    "kst" :> <<"Asia/Seoul">> @@
    "cst_china" :> <<"Asia/Shanghai">> @@
    "hkt" :> <<"Asia/Hong_Kong">> @@
    "sgt" :> <<"Asia/Singapore">> @@
    "myt" :> <<"Asia/Kuala_Lumpur">> @@
    "pht" :> <<"Asia/Manila">> @@
    "wib" :> <<"Asia/Jakarta">> @@
    "wit" :> <<"Asia/Jayapura">> @@
    "wita" :> <<"Asia/Makassar">> @@
    "ict" :> <<"Asia/Bangkok">> @@
    "mmt" :> <<"Asia/Yangon">> @@
    "npt" :> <<"Asia/Kathmandu">> @@
    "pkt" :> <<"Asia/Karachi">> @@
    "aft" :> <<"Asia/Kabul">> @@
    "irst" :> <<"Asia/Tehran">> @@
    "gst" :> <<"Asia/Dubai">> @@
    "aqtt" :> <<"Asia/Aqtau">> @@
    "aest" :> <<"Australia/Sydney">> @@
    "aedt" :> <<"Australia/Sydney">> @@
    "acst" :> <<"Australia/Adelaide">> @@
    "acdt" :> <<"Australia/Adelaide">> @@
    "awst" :> <<"Australia/Perth">> @@
    "nzst" :> <<"Pacific/Auckland">> @@
    "nzdt" :> <<"Pacific/Auckland">> @@
    "fjt" :> <<"Pacific/Fiji">> @@
    "brt" :> <<"America/Sao_Paulo">> @@
    "brst" :> <<"America/Sao_Paulo">> @@
    "art" :> <<"America/Argentina/Buenos_Aires">> @@
    "clt" :> <<"America/Santiago">> @@
    "clst" :> <<"America/Santiago">> @@
    "pet" :> <<"America/Lima">> @@
    "cot" :> <<"America/Bogota">> @@
    "vet" :> <<"America/Caracas">> @@
    "cat" :> <<"Africa/Harare">> @@
    "eat" :> <<"Africa/Nairobi">> @@
    "wat" :> <<"Africa/Lagos">> @@
    "sast" :> <<"Africa/Johannesburg">>

CITY_MAP ==
    "new york" :> "America/New_York" @@
    "chicago" :> "America/Chicago" @@
    "denver" :> "America/Denver" @@
    "los angeles" :> "America/Los_Angeles" @@
    "phoenix" :> "America/Phoenix" @@
    "anchorage" :> "America/Anchorage" @@
    "honolulu" :> "Pacific/Honolulu" @@
    "toronto" :> "America/Toronto" @@
    "vancouver" :> "America/Vancouver" @@
    "montreal" :> "America/Toronto" @@
    "halifax" :> "America/Halifax" @@
    "st johns" :> "America/St_Johns" @@
    "mexico city" :> "America/Mexico_City" @@
    "london" :> "Europe/London" @@
    "paris" :> "Europe/Paris" @@
    "berlin" :> "Europe/Berlin" @@
    "amsterdam" :> "Europe/Amsterdam" @@
    "brussels" :> "Europe/Brussels" @@
    "madrid" :> "Europe/Madrid" @@
    "rome" :> "Europe/Rome" @@
    "zurich" :> "Europe/Zurich" @@
    "vienna" :> "Europe/Vienna" @@
    "prague" :> "Europe/Prague" @@
    "warsaw" :> "Europe/Warsaw" @@
    "budapest" :> "Europe/Budapest" @@
    "bucharest" :> "Europe/Bucharest" @@
    "athens" :> "Europe/Athens" @@
    "istanbul" :> "Europe/Istanbul" @@
    "moscow" :> "Europe/Moscow" @@
    "helsinki" :> "Europe/Helsinki" @@
    "stockholm" :> "Europe/Stockholm" @@
    "oslo" :> "Europe/Oslo" @@
    "copenhagen" :> "Europe/Copenhagen" @@
    "dublin" :> "Europe/Dublin" @@
    "lisbon" :> "Europe/Lisbon" @@
    "kyiv" :> "Europe/Kyiv" @@
    "tokyo" :> "Asia/Tokyo" @@
    "osaka" :> "Asia/Tokyo" @@
    "seoul" :> "Asia/Seoul" @@
    "beijing" :> "Asia/Shanghai" @@
    "shanghai" :> "Asia/Shanghai" @@
    "hong kong" :> "Asia/Hong_Kong" @@
    "taipei" :> "Asia/Taipei" @@
    "singapore" :> "Asia/Singapore" @@
    "kuala lumpur" :> "Asia/Kuala_Lumpur" @@
    "bangkok" :> "Asia/Bangkok" @@
    "jakarta" :> "Asia/Jakarta" @@
    "manila" :> "Asia/Manila" @@
    "delhi" :> "Asia/Kolkata" @@
    "mumbai" :> "Asia/Kolkata" @@
    "kolkata" :> "Asia/Kolkata" @@
    "chennai" :> "Asia/Kolkata" @@
    "bangalore" :> "Asia/Kolkata" @@
    "karachi" :> "Asia/Karachi" @@
    "lahore" :> "Asia/Karachi" @@
    "dhaka" :> "Asia/Dhaka" @@
    "kathmandu" :> "Asia/Kathmandu" @@
    "yangon" :> "Asia/Yangon" @@
    "tehran" :> "Asia/Tehran" @@
    "dubai" :> "Asia/Dubai" @@
    "abu dhabi" :> "Asia/Dubai" @@
    "riyadh" :> "Asia/Riyadh" @@
    "doha" :> "Asia/Qatar" @@
    "jerusalem" :> "Asia/Jerusalem" @@
    "tel aviv" :> "Asia/Jerusalem" @@
    "kabul" :> "Asia/Kabul" @@
    "colombo" :> "Asia/Colombo" @@
    "sydney" :> "Australia/Sydney" @@
    "melbourne" :> "Australia/Melbourne" @@
    "brisbane" :> "Australia/Brisbane" @@
    "perth" :> "Australia/Perth" @@
    "adelaide" :> "Australia/Adelaide" @@
    "auckland" :> "Pacific/Auckland" @@
    "wellington" :> "Pacific/Auckland" @@
    "fiji" :> "Pacific/Fiji" @@
    "sao paulo" :> "America/Sao_Paulo" @@
    "rio de janeiro" :> "America/Sao_Paulo" @@
    "buenos aires" :> "America/Argentina/Buenos_Aires" @@
    "santiago" :> "America/Santiago" @@
    "lima" :> "America/Lima" @@
    "bogota" :> "America/Bogota" @@
    "caracas" :> "America/Caracas" @@
    "cairo" :> "Africa/Cairo" @@
    "lagos" :> "Africa/Lagos" @@
    "nairobi" :> "Africa/Nairobi" @@
    "johannesburg" :> "Africa/Johannesburg" @@
    "cape town" :> "Africa/Johannesburg" @@
    "casablanca" :> "Africa/Casablanca" @@
    "accra" :> "Africa/Accra" @@
    "addis ababa" :> "Africa/Addis_Ababa"

\* a variant of the short forms with a key of the abbreviation table
SHORT_FORM_MAP_WithIst ==
    "ny" :> "America/New_York" @@
    "ist" :> "Asia/Kolkata"

SHORT_FORM_MAP ==
    "ny" :> "America/New_York" @@
    "nyc" :> "America/New_York" @@
    "la" :> "America/Los_Angeles" @@
    "sf" :> "America/Los_Angeles" @@
    "chi" :> "America/Chicago" @@
    "kl" :> "Asia/Kuala_Lumpur" @@
    "hk" :> "Asia/Hong_Kong" @@
    "sg" :> "Asia/Singapore"

TIMEZONE_FULL_NAMES ==
    "America/New_York" :> "Eastern Time" @@
    "America/Chicago" :> "Central Time" @@
    "America/Denver" :> "Mountain Time" @@
    "America/Los_Angeles" :> "Pacific Time" @@
    "Asia/Shanghai" :> "China Standard Time" @@
    "Asia/Kolkata" :> "India Standard Time" @@
    "Asia/Jerusalem" :> "Israel Standard Time" @@
    "Europe/Dublin" :> "Irish Standard Time" @@
    "Europe/London" :> "British Summer Time" @@
    "Asia/Dhaka" :> "Bangladesh Standard Time" @@
    "America/Halifax" :> "Atlantic Time" @@
    "Asia/Riyadh" :> "Arabia Standard Time"

(***************************************************************************)
(* The host (Intl): its time zone database.  Every zone the tables name   *)
(* is in it, with the names the IANA database keeps beside the            *)
(* Region/City ones (CET, EET, WET, MET, EST, MST, HST, GMT, Singapore)   *)
(* and the two zones of extreme offset.  A zone is modelled by its        *)
(* standard-time offset from UTC in minutes, fixed over the year.         *)
(***************************************************************************)

HostZones ==
    "Africa/Accra" :> 0 @@ "Africa/Addis_Ababa" :> 180 @@ "Africa/Cairo" :> 120 @@
    "Africa/Casablanca" :> 60 @@ "Africa/Harare" :> 120 @@ "Africa/Johannesburg" :> 120 @@
    "Africa/Lagos" :> 60 @@ "Africa/Nairobi" :> 180 @@ "America/Anchorage" :> (-540) @@
    "America/Argentina/Buenos_Aires" :> (-180) @@ "America/Bogota" :> (-300) @@ "America/Caracas" :> (-240) @@
    "America/Chicago" :> (-360) @@ "America/Denver" :> (-420) @@ "America/Halifax" :> (-240) @@
    "America/Lima" :> (-300) @@ "America/Los_Angeles" :> (-480) @@ "America/Mexico_City" :> (-360) @@
    "America/New_York" :> (-300) @@ "America/Phoenix" :> (-420) @@ "America/Santiago" :> (-240) @@
    "America/Sao_Paulo" :> (-180) @@ "America/St_Johns" :> (-210) @@ "America/Toronto" :> (-300) @@
    "America/Vancouver" :> (-480) @@ "Asia/Aqtau" :> 300 @@ "Asia/Bangkok" :> 420 @@
    "Asia/Colombo" :> 330 @@ "Asia/Dhaka" :> 360 @@ "Asia/Dubai" :> 240 @@
    "Asia/Hong_Kong" :> 480 @@ "Asia/Jakarta" :> 420 @@ "Asia/Jayapura" :> 540 @@
    "Asia/Jerusalem" :> 120 @@ "Asia/Kabul" :> 270 @@ "Asia/Karachi" :> 300 @@
    "Asia/Kathmandu" :> 345 @@ "Asia/Kolkata" :> 330 @@ "Asia/Kuala_Lumpur" :> 480 @@
    "Asia/Makassar" :> 480 @@ "Asia/Manila" :> 480 @@ "Asia/Qatar" :> 180 @@
    "Asia/Riyadh" :> 180 @@ "Asia/Seoul" :> 540 @@ "Asia/Shanghai" :> 480 @@
    "Asia/Singapore" :> 480 @@ "Asia/Taipei" :> 480 @@ "Asia/Tehran" :> 210 @@
    "Asia/Tokyo" :> 540 @@ "Asia/Yangon" :> 390 @@ "Australia/Adelaide" :> 570 @@
    "Australia/Brisbane" :> 600 @@ "Australia/Melbourne" :> 600 @@ "Australia/Perth" :> 480 @@
    "Australia/Sydney" :> 600 @@ "Etc/GMT" :> 0 @@ "Europe/Amsterdam" :> 60 @@
    "Europe/Athens" :> 120 @@ "Europe/Berlin" :> 60 @@ "Europe/Brussels" :> 60 @@
    "Europe/Bucharest" :> 120 @@ "Europe/Budapest" :> 60 @@ "Europe/Copenhagen" :> 60 @@
    "Europe/Dublin" :> 0 @@ "Europe/Helsinki" :> 120 @@ "Europe/Istanbul" :> 180 @@
    "Europe/Kyiv" :> 120 @@ "Europe/Lisbon" :> 0 @@ "Europe/London" :> 0 @@
    "Europe/Madrid" :> 60 @@ "Europe/Moscow" :> 180 @@ "Europe/Oslo" :> 60 @@
    "Europe/Paris" :> 60 @@ "Europe/Prague" :> 60 @@ "Europe/Rome" :> 60 @@
    "Europe/Stockholm" :> 60 @@ "Europe/Vienna" :> 60 @@ "Europe/Warsaw" :> 60 @@
    "Europe/Zurich" :> 60 @@ "Pacific/Auckland" :> 720 @@ "Pacific/Fiji" :> 720 @@
    "Pacific/Honolulu" :> (-600) @@ "UTC" :> 0 @@ "GMT" :> 0 @@
    "CET" :> 60 @@ "EET" :> 120 @@ "WET" :> 0 @@
    "MET" :> 60 @@ "EST" :> (-300) @@ "MST" :> (-420) @@
    "HST" :> (-600) @@ "Singapore" :> 480 @@ "Etc/GMT+12" :> (-720) @@
    "Pacific/Kiritimati" :> 840

HostZoneNamesUpper == { toUpperCase(z) : z \in DOMAIN HostZones }

\* Intl.DateTimeFormat accepts a time zone name that matches a name of the
\* database without regard to ASCII letter case (ECMA-402, "time zone
\* names"), and throws a RangeError for any other; isValidIana catches it.
isValidIana(tz) == toUpperCase(tz) \in HostZoneNamesUpper

\* the zone of the database a valid name denotes
HostZoneByUpper ==
    [u \in HostZoneNamesUpper |-> CHOOSE z \in DOMAIN HostZones : toUpperCase(z) = u]

HostZone(tz) == HostZoneByUpper[toUpperCase(tz)]

(***************************************************************************)
(* src/src/timezone-utils.ts: timezone resolution                          *)
(***************************************************************************)

\* w.charAt(0).toUpperCase() + w.slice(1).toLowerCase()
TitleWord(w) == toUpperCase(charAt(w, 0)) \o toLowerCase(sliceFrom(w, 1))

titleWords(ws) == [i \in 1..Len(ws) |-> TitleWord(ws[i])]

TitlePart(part) == join(titleWords(split(part, "_")), "_")

titleParts(ps) == [i \in 1..Len(ps) |-> TitlePart(ps[i])]

ianaGuessOf(trimmed) == join(titleParts(split(trimmed, "/")), "/")

\* the candidate list of an abbreviation, cut to its first entry
abbreviationCandidates_First(lower) == <<get(ABBREVIATION_MAP, lower)[1]>>

\* [...ABBREVIATION_MAP[lower]]
abbreviationCandidates(lower) == get(ABBREVIATION_MAP, lower)

\* stages 2 to 4: the tables, read with the lowercased input
resolveInTables(lower) ==
    IF has(SHORT_FORM_MAP, lower) THEN <<get(SHORT_FORM_MAP, lower)>>
    ELSE IF has(ABBREVIATION_MAP, lower) THEN abbreviationCandidates(lower)
    ELSE IF has(CITY_MAP, lower) THEN <<get(CITY_MAP, lower)>>
    ELSE << >>

\* stage 1: the input or its title-cased form as a zone name of the host
resolveAsIana(trimmed, ianaGuess) ==
    IF isValidIana(trimmed) THEN <<trimmed>>
    ELSE IF ianaGuess # trimmed /\ isValidIana(ianaGuess) THEN <<ianaGuess>>
    ELSE resolveInTables(toLowerCase(trimmed))

resolveTrimmed(trimmed) ==
    IF trimmed = "" THEN << >> ELSE resolveAsIana(trimmed, ianaGuessOf(trimmed))

resolveTimezone(input) == resolveTrimmed(trim(input))

\* matches.length of getDisambiguationLabel: the candidate list's length,
\* 1 for the function Object (Object.length), and undefined, written -1,
\* for Object.prototype, for which "matches.length <= 1" is false
matchesLength(lower) ==
    IF lower \in DOMAIN ABBREVIATION_MAP THEN Len(ABBREVIATION_MAP[lower])
    ELSE IF lower = "constructor" THEN 1
    ELSE -1

labelOf(ianaId, lower, length) ==
    IF ~has(ABBREVIATION_MAP, lower) THEN << >>
    ELSE IF length >= 0 /\ length <= 1 THEN << >>
    ELSE IF has(TIMEZONE_FULL_NAMES, ianaId)
         THEN <<get(TIMEZONE_FULL_NAMES, ianaId)>>
         ELSE <<ianaId>>

labelForLower(ianaId, lower) == labelOf(ianaId, lower, matchesLength(lower))

getDisambiguationLabel(ianaId, sourceLabel) ==
    labelForLower(ianaId, toLowerCase(sourceLabel))

(***************************************************************************)
(* src/src/timezone-utils.ts: query parsing                                *)
(***************************************************************************)

\* trimmed.match(TIME_RE), TIME_RE = /^(\d{1,2})(?:[:.](\d{2}))?\s*(am|pm)?/i.
\* Every part after the first digit is optional, so the greedy choices are
\* final: two digits when there are two, the minute group when a ':' or '.'
\* and two digits follow, all the white space, then am or pm in any case.
\* matched is FALSE for a null result; g0 is timeMatch[0] and g1..g3 are the
\* groups, g2 and g3 optional.
RECURSIVE skipSpaces(_, _)
skipSpaces(s, p) ==
    IF p < Len(s) /\ IsSpace(charAt(s, p)) THEN skipSpaces(s, p + 1) ELSE p

\* the result of the match: n1 digits of hour, the minute group when
\* hasMin, white space up to q, then am or pm when hasAmPm
timeMatchOf(s, n1, hasMin, q, hasAmPm) ==
    [matched |-> TRUE,
     g0 |-> slice(s, 0, IF hasAmPm THEN q + 2 ELSE q),
     g1 |-> slice(s, 0, n1),
     g2 |-> IF hasMin THEN <<slice(s, n1 + 1, n1 + 3)>> ELSE << >>,
     g3 |-> IF hasAmPm THEN <<slice(s, q, q + 2)>> ELSE << >>]

matchMeridiem(s, n1, hasMin, q) ==
    timeMatchOf(s, n1, hasMin, q, toLowerCase(slice(s, q, q + 2)) \in {"am", "pm"})

matchMinutes(s, n1, hasMin) ==
    matchMeridiem(s, n1, hasMin, skipSpaces(s, IF hasMin THEN n1 + 3 ELSE n1))

matchHour(s, n1) ==
    matchMinutes(s, n1, /\ charAt(s, n1) \in {":", "."}
                        /\ IsDigit(charAt(s, n1 + 1))
                        /\ IsDigit(charAt(s, n1 + 2)))

matchTIME_RE(s) ==
    IF ~IsDigit(charAt(s, 0))
    THEN [matched |-> FALSE, g0 |-> "", g1 |-> "", g2 |-> << >>, g3 |-> << >>]
    ELSE matchHour(s, IF IsDigit(charAt(s, 1)) THEN 2 ELSE 1)

\* a variant of TO_RE without its word boundaries, /to/i
IsToAt_InWord(s, i) == toLowerCase(slice(s, i, i + 2)) = "to"

\* rest.match(TO_RE), TO_RE = /\bto\b/i: toMatch.index of the first "to" (any
\* case) with no word character on either side, -1 for a null result
IsToAt(s, i) ==
    /\ toLowerCase(slice(s, i, i + 2)) = "to"
    /\ (i = 0 \/ ~IsWordChar(charAt(s, i - 1)))
    /\ (i + 2 = Len(s) \/ ~IsWordChar(charAt(s, i + 2)))

RECURSIVE firstToFrom(_, _)
firstToFrom(s, i) ==
    IF i > Len(s) - 2 THEN -1
    ELSE IF IsToAt(s, i) THEN i
    ELSE firstToFrom(s, i + 1)

matchTO_RE(s) == firstToFrom(s, 0)

ParsedQuery(timeStr, hours, minutes, sourceTimezone, sourceLabel, targetTimezone, error) ==
    [timeStr |-> timeStr, hours |-> hours, minutes |-> minutes,
     sourceTimezone |-> sourceTimezone, sourceLabel |-> sourceLabel,
     targetTimezone |-> targetTimezone, error |-> error]

ErrEmptyQuery == "Empty query. Try something like: 7:22 CET or 7:22pm PST to CET"

ErrInvalidFormat ==
    "Invalid time format. Use HH, HH:MM, or HH.MM, e.g., 11 CET, 7:22, or 7.22pm"

ErrHour12 == "Invalid time: hour must be 1-12 when using AM/PM"

ErrHour24 == "Invalid time: hour must be 0-23"

ErrMinutes == "Invalid time: minutes must be 0-59"

ErrMissingSource == "Missing source timezone. Try: 7:22 CET"

ErrUnknownTimezone(sourcePart) ==
    "Unknown timezone: \"" \o sourcePart \o "\". Try CET, Berlin, or Europe/Berlin"

ErrUnknownTarget(targetPart) ==
    "Unknown target timezone: \"" \o targetPart
        \o "\". Try CET, Berlin, or Europe/Berlin"

\* hours after "if (ampm === 'pm' && hours !== 12) hours += 12;
\* if (ampm === 'am' && hours === 12) hours = 0"
to24Hour(hours, ampm) ==
    IF ampm = "pm" /\ hours # 12 THEN hours + 12
    ELSE IF ampm = "am" /\ hours = 12 THEN 0
    ELSE hours

\* the validity tests of the hour and the minute
hourOutOfRange12(hours) == hours < 1 \/ hours > 12

hourOutOfRange24(hours) == hours > 23

\* a test that lets minute 60 through
minutesOutOfRange_UpTo60(minutes) == minutes > 60

minutesOutOfRange(minutes) == minutes > 59

\* a result that drops the phrase it could not resolve
unknownSource_NoLabel(timeStr, hours, minutes, sourcePart) ==
    ParsedQuery(timeStr, hours, minutes, "", "", << >>,
                <<ErrUnknownTimezone(sourcePart)>>)

\* the result for a source phrase that resolves to no zone
unknownSource(timeStr, hours, minutes, sourcePart) ==
    ParsedQuery(timeStr, hours, minutes, "", sourcePart, << >>,
                <<ErrUnknownTimezone(sourcePart)>>)

\* "4. Resolve target timezone": the result for a target phrase
resolveTarget(timeStr, hours, minutes, sourceTimezone, sourcePart, targetPart, targetResolved) ==
    IF Len(targetResolved) = 0
    THEN ParsedQuery(timeStr, hours, minutes, sourceTimezone, sourcePart, << >>,
                     <<ErrUnknownTarget(targetPart)>>)
    ELSE ParsedQuery(timeStr, hours, minutes, sourceTimezone, sourcePart,
                     <<targetResolved[1]>>, << >>)

\* "3. Resolve source timezone": the first candidate is the source zone
resolveSource(timeStr, hours, minutes, sourcePart, targetPart, sourceResolved) ==
    IF Len(sourceResolved) = 0
    THEN unknownSource(timeStr, hours, minutes, sourcePart)
    ELSE IF targetPart # << >> /\ targetPart[1] # ""
    THEN resolveTarget(timeStr, hours, minutes, sourceResolved[1], sourcePart,
                       targetPart[1], resolveTimezone(targetPart[1]))
    ELSE ParsedQuery(timeStr, hours, minutes, sourceResolved[1], sourcePart,
                     << >>, << >>)

\* a variant without the "if (!sourcePart)" check of line 175
resolveParts_NoMissingCheck(timeStr, hours, minutes, sourcePart, targetPart) ==
    resolveSource(timeStr, hours, minutes, sourcePart, targetPart,
                  resolveTimezone(sourcePart))

resolveParts(timeStr, hours, minutes, sourcePart, targetPart) ==
    IF sourcePart = ""
    THEN ParsedQuery(timeStr, hours, minutes, "", "", << >>, <<ErrMissingSource>>)
    ELSE resolveSource(timeStr, hours, minutes, sourcePart, targetPart,
                       resolveTimezone(sourcePart))

\* "2. Split on 'to' separator" at toMatch.index, -1 for no match
splitOnTo(timeStr, hours, minutes, rest, toIndex) ==
    IF toIndex >= 0
    THEN resolveParts(timeStr, hours, minutes, trim(slice(rest, 0, toIndex)),
                      <<trim(sliceFrom(rest, toIndex + 2))>>)
    ELSE resolveParts(timeStr, hours, minutes, rest, << >>)

splitRest(timeStr, hours, minutes, rest) ==
    splitOnTo(timeStr, hours, minutes, rest, matchTO_RE(rest))

\* a variant of "Validate ranges" that checks the minute before the hour
validateTime_MinutesFirst(trimmed, g0, hours, minutes, ampm) ==
    IF minutesOutOfRange(minutes)
    THEN ParsedQuery(g0, hours, minutes, "", "", << >>, <<ErrMinutes>>)
    ELSE IF ampm # << >> /\ hourOutOfRange12(hours)
    THEN ParsedQuery(g0, hours, minutes, "", "", << >>, <<ErrHour12>>)
    ELSE IF ampm = << >> /\ hourOutOfRange24(hours)
    THEN ParsedQuery(g0, hours, minutes, "", "", << >>, <<ErrHour24>>)
    ELSE splitRest(trim(g0), IF ampm # << >> THEN to24Hour(hours, ampm[1]) ELSE hours,
                   minutes, trim(sliceFrom(trimmed, Len(g0))))

\* "Validate ranges" of the hour, its 24-hour value, and the minute
validateTime(trimmed, g0, hours, minutes, ampm) ==
    IF ampm # << >> /\ hourOutOfRange12(hours)
    THEN ParsedQuery(g0, hours, minutes, "", "", << >>, <<ErrHour12>>)
    ELSE IF ampm = << >> /\ hourOutOfRange24(hours)
    THEN ParsedQuery(g0, hours, minutes, "", "", << >>, <<ErrHour24>>)
    ELSE IF minutesOutOfRange(minutes)
    THEN ParsedQuery(g0, IF ampm # << >> THEN to24Hour(hours, ampm[1]) ELSE hours,
                     minutes, "", "", << >>, <<ErrMinutes>>)
    ELSE splitRest(trim(g0), IF ampm # << >> THEN to24Hour(hours, ampm[1]) ELSE hours,
                   minutes, trim(sliceFrom(trimmed, Len(g0))))

\* "1. Extract time"
extractTime(trimmed, timeMatch) ==
    IF ~timeMatch.matched
    THEN ParsedQuery("", 0, 0, "", "", << >>, <<ErrInvalidFormat>>)
    ELSE validateTime(trimmed, timeMatch.g0, parseInt(timeMatch.g1),
                      IF timeMatch.g2 # << >> THEN parseInt(timeMatch.g2[1]) ELSE 0,
                      IF timeMatch.g3 # << >> THEN <<toLowerCase(timeMatch.g3[1])>>
                      ELSE << >>)

parseTrimmed(trimmed) ==
    IF trimmed = ""
    THEN ParsedQuery("", 0, 0, "", "", << >>, <<ErrEmptyQuery>>)
    ELSE extractTime(trimmed, matchTIME_RE(trimmed))

parseQuery(query) == parseTrimmed(trim(query))

(***************************************************************************)
(* The host (Date, Intl): the proleptic Gregorian calendar.  A Date is    *)
(* its time value in minutes since 1970-01-01T00:00Z: every Date the      *)
(* converter makes has zero seconds and milliseconds.                      *)
(***************************************************************************)

\* days since 1970-01-01 of the civil date year-month-day (month 1..12)
DaysFromCivil(year, month, day) ==
    LET y == IF month <= 2 THEN year - 1 ELSE year
        era == y \div 400
        yoe == y - era * 400
        mp == IF month > 2 THEN month - 3 ELSE month + 9
        doy == (153 * mp + 2) \div 5 + day - 1
        doe == yoe * 365 + yoe \div 4 - yoe \div 100 + doy
    IN  era * 146097 + doe - 719468

\* the civil date of a day number, step by step: the era of 400 years, the
\* day and the year of the era, the day of the year counted from March 1
civilOfMonth(year, mp, doy) ==
    [year |-> year + (IF mp < 10 THEN 0 ELSE 1),
     month |-> IF mp < 10 THEN mp + 3 ELSE mp - 9,
     day |-> doy - (153 * mp + 2) \div 5 + 1]

civilOfDayOfYear(year, doy) == civilOfMonth(year, (5 * doy + 2) \div 153, doy)

civilOfYearOfEra(era, doe, yoe) ==
    civilOfDayOfYear(yoe + era * 400,
                     doe - (365 * yoe + yoe \div 4 - yoe \div 100))

civilOfDayOfEra(era, doe) ==
    civilOfYearOfEra(era, doe,
        (doe - doe \div 1460 + doe \div 36524 - doe \div 146096) \div 365)

civilOfEra(z, era) == civilOfDayOfEra(era, z - era * 146097)

civilOfShifted(z) == civilOfEra(z, z \div 146097)

CivilFromDays(days) == civilOfShifted(days + 719468)

\* Date.UTC(year, monthIndex, day, hours, minutes, 0, 0), monthIndex 0..11
DateUTC(year, monthIndex, day, hours, minutes) ==
    DaysFromCivil(year, monthIndex + 1, day) * 1440 + hours * 60 + minutes

\* the UTC offset in minutes the host gives a zone; "UTC" is in the database
HostOffset(timeZone) == HostZones[HostZone(timeZone)]

(***************************************************************************)
(* src/src/timezone-utils.ts: time conversion                              *)
(***************************************************************************)

\* the calendar and clock fields of a local time in minutes
partsOf(civil, local) ==
    [year |-> civil.year, month |-> civil.month, day |-> civil.day,
     hour |-> ((local % 1440) \div 60) % 24,
     minute |-> local % 60]

partsOfLocal(local) == partsOf(CivilFromDays(local \div 1440), local)

\* formatToParts(date) in timeZone, read back with parseInt: the zone's
\* local calendar and clock fields at the instant
getDateParts(date, timeZone) == partsOfLocal(date + HostOffset(timeZone))

FieldMinutes(parts) ==
    parts.year * 525960 + parts.month * 43800 + parts.day * 1440
        + parts.hour * 60 + parts.minute

getUtcOffsetMinutes(ianaId, date) ==
    FieldMinutes(getDateParts(date, ianaId)) - FieldMinutes(getDateParts(date, "UTC"))

formatUtcOffset(offsetMinutes) ==
    (IF offsetMinutes >= 0 THEN "+" ELSE "-")
        \o padStart2(String((IF offsetMinutes >= 0 THEN offsetMinutes
                             ELSE -offsetMinutes) \div 60))
        \o ":"
        \o padStart2(String((IF offsetMinutes >= 0 THEN offsetMinutes
                             ELSE -offsetMinutes) % 60))

\* the short names the en-US locale has for zones in standard time
HostShortNames ==
    "America/Los_Angeles" :> "PST" @@ "America/Vancouver" :> "PST" @@
    "America/Denver" :> "MST" @@ "America/Phoenix" :> "MST" @@
    "America/Chicago" :> "CST" @@ "America/Mexico_City" :> "CST" @@
    "America/New_York" :> "EST" @@ "America/Toronto" :> "EST" @@
    "America/Halifax" :> "AST" @@ "America/Anchorage" :> "AKST" @@
    "Pacific/Honolulu" :> "HST" @@ "UTC" :> "UTC"

\* the en-US pattern "GMT+5:30" of an offset
gmtName(o) ==
    IF o = 0 THEN "GMT"
    ELSE IF o > 0
    THEN "GMT+" \o String(o \div 60)
             \o (IF o % 60 = 0 THEN "" ELSE ":" \o padStart2(String(o % 60)))
    ELSE "GMT-" \o String((-o) \div 60)
             \o (IF (-o) % 60 = 0 THEN "" ELSE ":" \o padStart2(String((-o) % 60)))

shortNameOf(zone) ==
    IF zone \in DOMAIN HostShortNames THEN HostShortNames[zone]
    ELSE gmtName(HostZones[zone])

\* the host's short name of the zone at the instant: the en-US name of the
\* zone, else the pattern "GMT+5:30"
getAbbreviation(date, ianaId) == shortNameOf(HostZone(ianaId))

\* a variant that pads the hour as well
formatTime_Padded(hours, minutes) ==
    padStart2(String(hours)) \o ":" \o padStart2(String(minutes))

formatTime(hours, minutes) == String(hours) \o ":" \o padStart2(String(minutes))

clockText(parts) ==
    padStart2(String(parts.hour)) \o ":" \o padStart2(String(parts.minute))

\* the host's clock text in the system locale, taken as a 24-hour one
formatTimeInTz(date, ianaId) == clockText(getDateParts(date, ianaId))

\* dayOffset of convertTime: the difference of the days of the month, moved
\* by 30 when it is beyond 15 either way
targetWrappedBack(dayOffset) == IF dayOffset > 15 THEN dayOffset - 30 ELSE dayOffset

sourceWrappedBack(dayOffset) == IF dayOffset < -15 THEN dayOffset + 30 ELSE dayOffset

dayOffsetOf(targetDay, sourceDay) ==
    sourceWrappedBack(targetWrappedBack(targetDay - sourceDay))

\* the ConvertedTime of steps 4 and 5, at the instant of step 3
convertedAt(actualUtcDate, sourceParts, targetParts, targetIana, disambiguationLabel) ==
    [ianaId |-> targetIana,
     abbreviation |-> getAbbreviation(actualUtcDate, targetIana),
     formattedTime |-> formatTimeInTz(actualUtcDate, targetIana),
     utcOffset |-> formatUtcOffset(getUtcOffsetMinutes(targetIana, actualUtcDate)),
     dayOffset |-> dayOffsetOf(targetParts.day, sourceParts.day),
     isLocal |-> targetIana = localIana,
     label |-> disambiguationLabel,
     hours |-> targetParts.hour,
     minutes |-> targetParts.minute]

convertAt(actualUtcDate, sourceIana, targetIana, disambiguationLabel) ==
    convertedAt(actualUtcDate, getDateParts(actualUtcDate, sourceIana),
                getDateParts(actualUtcDate, targetIana), targetIana,
                disambiguationLabel)

\* steps 2 and 3: the reference instant less the source offset found at it
convertFrom(refDate, sourceIana, targetIana, disambiguationLabel) ==
    convertAt(refDate - getUtcOffsetMinutes(sourceIana, refDate), sourceIana,
              targetIana, disambiguationLabel)

convertTime(hours, minutes, sourceIana, targetIana, disambiguationLabel) ==
    convertFrom(DateUTC(now.year, now.month - 1, now.day, hours, minutes),
                sourceIana, targetIana, disambiguationLabel)

(***************************************************************************)
(* src/src/timezone-utils.ts: target timezone assembly                     *)
(***************************************************************************)

\* a value a table read can give that is no string: the function Object or
\* Object.prototype
IsObject(v) == \E k \in DOMAIN ObjectPrototype : ObjectPrototype[k] = v

\* a variant of add without the "seen" set
add_NoSeen(targets, ianaId) == Append(targets, [ianaId |-> ianaId, label |-> << >>])

\* add(ianaId) of getTargetTimezones; no caller passes a label
add(targets, ianaId) ==
    IF \E i \in 1..Len(targets) : targets[i].ianaId = ianaId
    THEN targets
    ELSE Append(targets, [ianaId |-> ianaId, label |-> << >>])

\* for (const tz of resolved) add(tz)
RECURSIVE addAll(_, _)
addAll(targets, resolved) ==
    IF Len(resolved) = 0 THEN targets
    ELSE addAll(add(targets, Head(resolved)), Tail(resolved))

\* favoriteSetting.split(",").map((s) => s.trim())
trimAll(raw) == [i \in 1..Len(raw) |-> trim(raw[i])]

favoriteEntries(favoriteSetting) == trimAll(split(favoriteSetting, ","))

\* a variant of the loop that adds an entry without a zone as it is written,
\* as "2. Explicit target" does
RECURSIVE addFavorites_KeepUnresolved(_, _)
addFavorites_KeepUnresolved(targets, entries) ==
    IF Len(entries) = 0 THEN targets
    ELSE IF Head(entries) = "" THEN addFavorites_KeepUnresolved(targets, Tail(entries))
    ELSE IF Len(resolveTimezone(Head(entries))) = 0
    THEN addFavorites_KeepUnresolved(add(targets, Head(entries)), Tail(entries))
    ELSE addFavorites_KeepUnresolved(addAll(targets, resolveTimezone(Head(entries))),
                                     Tail(entries))

\* the loop over the favorites entries
RECURSIVE addFavorites(_, _)
addFavorites(targets, entries) ==
    IF Len(entries) = 0 THEN targets
    ELSE IF Head(entries) = "" THEN addFavorites(targets, Tail(entries))
    ELSE addFavorites(addAll(targets, resolveTimezone(Head(entries))), Tail(entries))

\* resolveTimezone(parsed.targetTimezone) calls input.trim(), which is a
\* TypeError when the target is no string
getTargetTimezonesThrows(parsed) ==
    parsed.targetTimezone # << >> /\ IsObject(parsed.targetTimezone[1])

\* "2. Explicit target": the candidates of the target, or the target itself
addTarget(targets, targetTimezone, targetResolved) ==
    IF Len(targetResolved) = 0 THEN add(targets, targetTimezone)
    ELSE addAll(targets, targetResolved)

withTarget(targets, parsed) ==
    IF parsed.targetTimezone # << >> /\ parsed.targetTimezone[1] # ""
    THEN addTarget(targets, parsed.targetTimezone[1],
                   resolveTimezone(parsed.targetTimezone[1]))
    ELSE targets

\* "3. Favorites"
withFavorites(targets, favoriteSetting) ==
    IF trim(favoriteSetting) # ""
    THEN addFavorites(targets, favoriteEntries(favoriteSetting))
    ELSE targets

\* a variant that adds the favorites before the explicit target
getTargetTimezones_FavoritesFirst(parsed, favoriteSetting) ==
    withTarget(withFavorites(add(<< >>, localIana), favoriteSetting), parsed)

getTargetTimezones(parsed, favoriteSetting) ==
    withFavorites(withTarget(add(<< >>, localIana), parsed), favoriteSetting)

\* a variant of invalidEntries without the "if (!entry) continue" of line 443
RECURSIVE invalidEntries_KeepEmpty(_)
invalidEntries_KeepEmpty(entries) ==
    IF Len(entries) = 0 THEN << >>
    ELSE IF Len(resolveTimezone(Head(entries))) = 0
    THEN <<Head(entries)>> \o invalidEntries_KeepEmpty(Tail(entries))
    ELSE invalidEntries_KeepEmpty(Tail(entries))

RECURSIVE invalidEntries(_)
invalidEntries(entries) ==
    IF Len(entries) = 0 THEN << >>
    ELSE IF Head(entries) # "" /\ Len(resolveTimezone(Head(entries))) = 0
    THEN <<Head(entries)>> \o invalidEntries(Tail(entries))
    ELSE invalidEntries(Tail(entries))

getInvalidFavorites(favoriteSetting) ==
    IF trim(favoriteSetting) = "" THEN << >>
    ELSE invalidEntries(favoriteEntries(favoriteSetting))

(***************************************************************************)
(* src/src/convert-time.tsx                                                *)
(***************************************************************************)

\* new Intl.DateTimeFormat(..., { timeZone }) of getDateParts throws a
\* RangeError for a zone the host does not know
convertTimeThrows(sourceIana, targetIana) ==
    ~isValidIana(sourceIana) \/ ~isValidIana(targetIana)

\* tz.label || getDisambiguationLabel(tz.ianaId, parsed.sourceLabel)
labelFor(tz, parsed) ==
    IF tz.label # << >> /\ tz.label[1] # "" THEN tz.label
    ELSE getDisambiguationLabel(tz.ianaId, parsed.sourceLabel)

\* one render of ConvertTime for a search text: the view it returns, with
\* the arguments of the convertTime calls beside their results
Rendered(view, parsed, targets, conversions, results) ==
    [view |-> view, parsed |-> parsed, targets |-> targets,
     conversions |-> conversions, results |-> results]

\* the arguments of the convertTime calls of targets.map
conversionsOf(parsed, targets) ==
    [i \in 1..Len(targets) |->
        [hours |-> parsed.hours, minutes |-> parsed.minutes,
         sourceIana |-> parsed.sourceTimezone,
         targetIana |-> targets[i].ianaId,
         label |-> labelFor(targets[i], parsed)]]

\* "Compute conversions": the results view, unless a convertTime call throws
renderResults(parsed, targets) ==
    IF \E i \in 1..Len(targets) :
            convertTimeThrows(parsed.sourceTimezone, targets[i].ianaId)
    THEN Rendered("crash", parsed, targets, conversionsOf(parsed, targets), << >>)
    ELSE Rendered("results", parsed, targets, conversionsOf(parsed, targets),
             [i \in 1..Len(targets) |->
                 convertTime(parsed.hours, parsed.minutes, parsed.sourceTimezone,
                             targets[i].ianaId, labelFor(targets[i], parsed))])

\* the render of a parsed query: the error view, else the results
renderParsed(parsed) ==
    IF parsed.error # << >> /\ parsed.error[1] # ""
    THEN Rendered("error", parsed, << >>, << >>, << >>)
    ELSE IF getTargetTimezonesThrows(parsed)
    THEN Rendered("crash", parsed, << >>, << >>, << >>)
    ELSE renderResults(parsed, getTargetTimezones(parsed, favoriteTimezones))

ConvertTime(text) ==
    IF trim(text) = "" THEN Rendered("empty", << >>, << >>, << >>, << >>)
    ELSE renderParsed(parseQuery(trim(text)))

\* targets.map((t) => convertTime(...)) of ReverseConversionView
reverseResults(hours, minutes, sourceIanaId, targets) ==
    [targets |-> targets,
     results |-> [i \in 1..Len(targets) |->
                     convertTime(hours, minutes, sourceIanaId,
                                 targets[i].ianaId, targets[i].label)]]

\* the targets and results of ReverseConversionView for one result row
ReverseConversionView(hours, minutes, sourceIanaId, sourceLabel) ==
    reverseResults(hours, minutes, sourceIanaId,
        getTargetTimezones(
            ParsedQuery(formatTime(hours, minutes), hours, minutes,
                        sourceIanaId, sourceLabel, << >>, << >>),
            favoriteTimezones))

(***************************************************************************)
(* Bounds and input sets                                                   *)
(***************************************************************************)

\* days kept at each end of every month
DayMargin == 1

\* zones of ConvertZoneList the converter is driven with
NumConvertZones == 3

\* minutes 0, MinuteStep, 2 * MinuteStep, ... and 59
MinuteStep == 30

Years == 2027..2028

DaysInMonth(year, month) ==
    IF month = 12 THEN 31
    ELSE DaysFromCivil(year, month + 1, 1) - DaysFromCivil(year, month, 1)

SampleDays(year, month) ==
    { d \in 1..DaysInMonth(year, month) :
        \/ d <= DayMargin
        \/ d > DaysInMonth(year, month) - DayMargin
        \/ d = 15 }

Dates ==
    UNION { UNION { { [year |-> y, month |-> m, day |-> d] : d \in SampleDays(y, m) }
                    : m \in 1..12 } : y \in Years }

ConvertZoneList ==
    <<"America/Los_Angeles", "Asia/Kuala_Lumpur", "Asia/Kolkata", "Europe/Berlin",
      "UTC", "Pacific/Kiritimati", "Etc/GMT+12", "America/St_Johns">>

ConvertZoneCount ==
    IF NumConvertZones < Len(ConvertZoneList) THEN NumConvertZones
    ELSE Len(ConvertZoneList)

ConvertZones == { ConvertZoneList[i] : i \in 1..ConvertZoneCount }

MinuteSamples == { m \in 0..59 : m % MinuteStep = 0 } \cup {59}

\* the command is not mounted and no operation has run
Idle ==
    /\ mounted = FALSE
    /\ searchText = ""
    /\ toasts = << >>
    /\ op = "init"
    /\ ret = << >>

(***************************************************************************)
(* The converter: convertTime on every sampled date, and the reverse      *)
(* conversion of its result                                                *)
(***************************************************************************)

InitConvert ==
    /\ now \in Dates
    /\ localIana = ConvertZoneList[1]
    /\ favoriteTimezones = join(SubSeq(ConvertZoneList, 1, ConvertZoneCount), ", ")
    /\ Idle
    /\ args \in { <<hours, minutes, sourceIana, targetIana>> :
                    hours \in 0..23, minutes \in MinuteSamples,
                    sourceIana \in ConvertZones, targetIana \in ConvertZones }

CallConvertTime ==
    /\ op = "init"
    /\ op' = "convertTime"
    /\ ret' = convertTime(args[1], args[2], args[3], args[4], << >>)
    /\ UNCHANGED <<host, command, args>>

\* the Reverse Conversion action on the row of a result
PushReverseConversion ==
    /\ op = "convertTime"
    /\ op' = "ReverseConversionView"
    /\ ret' = [forward |-> ret,
               reverse |-> ReverseConversionView(ret.hours, ret.minutes, ret.ianaId,
                                                 ret.abbreviation)]
    /\ UNCHANGED <<host, command, args>>

NextConvert == CallConvertTime \/ PushReverseConversion

SpecConvert == InitConvert /\ [][NextConvert]_vars

(***************************************************************************)
(* The parser: parseQuery on queries composed of a time, a source phrase   *)
(* and an optional target                                                  *)
(***************************************************************************)

\* largest hour and minute written in a 24-hour time
MaxHour == 30

MaxMinute == 70

\* largest hour written before am or pm
MaxHour12 == 14

Meridiems == {"am", "pm", "AM", "PM", "Am", "aM", "Pm", "pM"}

\* the text of a query: the hour, a ':' and a two-digit minute when there is
\* one, the gap and am or pm when there is one, then the source phrase and
\* " to " with the target when there is one
QueryText(hour, minute, gap, ampm, source, target) ==
    String(hour)
        \o (IF minute = << >> THEN "" ELSE ":" \o padStart2(String(minute[1])))
        \o (IF ampm = << >> THEN "" ELSE gap \o ampm[1])
        \o " " \o source
        \o (IF target = << >> THEN "" ELSE " to " \o target[1])

Query(hour, minute, gap, ampm, source, target) ==
    [hour |-> hour, minute |-> minute, gap |-> gap, ampm |-> ampm,
     source |-> source, target |-> target,
     query |-> QueryText(hour, minute, gap, ampm, source, target)]

Option(S) == {<< >>} \cup { <<x>> : x \in S }

\* 24-hour times, in and out of range, before CET
Queries24 ==
    { Query(hour, minute, "", << >>, "CET", << >>) :
        hour \in 0..MaxHour, minute \in Option(0..MaxMinute) }

\* 12-hour times, in and out of range
Queries12 ==
    { Query(hour, minute, gap, <<ampm>>, st[1], st[2]) :
        hour \in 0..MaxHour12, minute \in Option({0, 30, 59, 60}),
        gap \in {"", " "}, ampm \in Meridiems,
        st \in {<<"PST", <<"CET">>>>, <<"CET", << >>>>} }

SourcePhrases ==
    {"", "XX", "Nowhere", "Amxx", "pmxyz", "IST", "CST", "Amsterdam", "Berlin",
     "America/New_York", "europe/berlin", "new york", "Toronto", "NY",
     "constructor", "__proto__"}

TargetPhrases == {"", "CET", "XX", "IST", "Tokyo", "constructor"}

\* valid times before every source phrase and target
QueriesSource ==
    { Query(t[1], t[2], "", t[3], source, target) :
        t \in {<<13, <<0>>, << >>>>, <<9, << >>, << >>>>, <<7, << >>, <<"pm">>>>,
               <<12, <<30>>, <<"AM">>>>},
        source \in SourcePhrases, target \in Option(TargetPhrases) }

Queries == Queries24 \cup Queries12 \cup QueriesSource

InitParse ==
    /\ now \in {[year |-> 2027, month |-> 1, day |-> 31]}
    /\ localIana = "Europe/Berlin"
    /\ favoriteTimezones = ""
    /\ Idle
    /\ args \in Queries

CallParseQuery ==
    /\ op = "init"
    /\ op' = "parseQuery"
    /\ ret' = parseQuery(args.query)
    /\ UNCHANGED <<host, command, args>>

NextParse == CallParseQuery

SpecParse == InitParse /\ [][NextParse]_vars

(***************************************************************************)
(* The resolver: resolveTimezone and getDisambiguationLabel on table keys  *)
(* in three letter cases, zone names of the host, and other texts          *)
(***************************************************************************)

\* every word of a phrase with its first letter in upper case
TitleCase(k) == join(titleWords(split(k, " ")), " ")

CaseVariants(k) == {k, toUpperCase(k), TitleCase(k)}

TableKeys == DOMAIN SHORT_FORM_MAP \cup DOMAIN ABBREVIATION_MAP \cup DOMAIN CITY_MAP

OtherTexts ==
    {"", "   ", "XX", "Nowhere", " IST ", "constructor", "__proto__", "Constructor",
     "europe/berlin", "EUROPE/BERLIN", "america/new_york", "asia/ho_chi_minh",
     "Europe/Nowhere"}

ResolveInputs ==
    UNION { CaseVariants(k) : k \in TableKeys } \cup DOMAIN HostZones \cup OtherTexts

LabelZones ==
    {"Asia/Kolkata", "Asia/Jerusalem", "Europe/Dublin", "Asia/Tokyo",
     "America/Chicago", "Europe/Berlin", "UTC"}

LabelTexts ==
    UNION { {k, toUpperCase(k)} : k \in DOMAIN ABBREVIATION_MAP }
        \cup {"", "XX", "Tokyo", "NY", "constructor", "__proto__"}

InitResolve ==
    /\ now \in {[year |-> 2027, month |-> 1, day |-> 31]}
    /\ localIana = "Europe/Berlin"
    /\ favoriteTimezones = ""
    /\ Idle
    /\ args \in { [input |-> s] : s \in ResolveInputs }
                  \cup { [ianaId |-> z, sourceLabel |-> l] :
                            z \in LabelZones, l \in LabelTexts }

CallResolveTimezone ==
    /\ op = "init"
    /\ "input" \in DOMAIN args
    /\ op' = "resolveTimezone"
    /\ ret' = resolveTimezone(args.input)
    /\ UNCHANGED <<host, command, args>>

CallGetDisambiguationLabel ==
    /\ op = "init"
    /\ "sourceLabel" \in DOMAIN args
    /\ op' = "getDisambiguationLabel"
    /\ ret' = getDisambiguationLabel(args.ianaId, args.sourceLabel)
    /\ UNCHANGED <<host, command, args>>

NextResolve == CallResolveTimezone \/ CallGetDisambiguationLabel

SpecResolve == InitResolve /\ [][NextResolve]_vars

(***************************************************************************)
(* The command: ConvertTime is mounted with a fallback text and rendered   *)
(* again on every change of the search text                                *)
(***************************************************************************)

SearchTexts ==
    {"", "  ", "9:00 IST", "11 IST", "9:00 ist to CET", "7pm PST to IST", "10 CST",
     "7:22 CET", "3pm PST to EST", "14:00 Tokyo", "23:00 LA to KL", "13:00 XX",
     "7:22", "abc", "25:00 CET", "9:00 constructor", "9:00 Berlin to XX"}

FavoriteSettings ==
    {"", "America/New_York, CET, Tokyo", "CET, Nonexistent, Tokyo",
     "Asia/Jerusalem, asia/kolkata, IST,, Nowhere, XX"}

Init ==
    /\ now \in {[year |-> 2027, month |-> 1, day |-> 31],
                [year |-> 2027, month |-> 6, day |-> 15]}
    /\ localIana \in {"Europe/Berlin", "Asia/Kolkata"}
    /\ favoriteTimezones \in FavoriteSettings
    /\ Idle
    /\ args = << >>

\* the toast of the mount effect, which runs after a first render that
\* returned
showToastOnMount(rendered) ==
    LET invalid == getInvalidFavorites(favoriteTimezones)
    IN  IF rendered.view # "crash" /\ Len(invalid) > 0
        THEN Append(toasts, [title |-> "Skipping unknown timezone(s)",
                             message |-> join(invalid, ", ")])
        ELSE toasts

\* the launch of the command: useState(props.fallbackText ?? ""), the first
\* render and the mount effect
Mount ==
    /\ ~mounted
    /\ \E fallbackText \in SearchTexts :
          /\ mounted' = TRUE
          /\ searchText' = fallbackText
          /\ op' = "Mount"
          /\ args' = <<fallbackText>>
          /\ ret' = ConvertTime(fallbackText)
          /\ toasts' = showToastOnMount(ret')
    /\ UNCHANGED host

\* a variant in which every render runs the effect, as useEffect without
\* its dependency list would
OnSearchTextChange_Retoast ==
    /\ mounted
    /\ ret.view # "crash"
    /\ \E text \in SearchTexts \ {searchText} :
          /\ searchText' = text
          /\ op' = "onSearchTextChange"
          /\ args' = <<text>>
          /\ ret' = ConvertTime(text)
          /\ toasts' = IF Len(toasts) < 3 THEN showToastOnMount(ret') ELSE toasts
    /\ UNCHANGED <<host, mounted>>

\* setSearchText(text) and the render it causes; a render that threw has
\* taken the command down
OnSearchTextChange ==
    /\ mounted
    /\ ret.view # "crash"
    /\ \E text \in SearchTexts \ {searchText} :
          /\ searchText' = text
          /\ op' = "onSearchTextChange"
          /\ args' = <<text>>
          /\ ret' = ConvertTime(text)
    /\ UNCHANGED <<host, mounted, toasts>>

Next == Mount \/ OnSearchTextChange

Spec == Init /\ [][Next]_vars

(***************************************************************************)
(* Target assembly and the favorites check as functions of a parsed query  *)
(* and a favorites preference                                              *)
(***************************************************************************)

\* queries whose parse results are handed to getTargetTimezones: without a
\* target, with an ambiguous, a plain, a differently spelled and the local
\* target, with an unknown source and with a target read off Object.prototype
TargetQueries ==
    {"9:00 IST", "7pm PST to IST", "9:00 Berlin to Tokyo", "9:00 Berlin to CST",
     "9:00 Tokyo to Europe/Berlin", "9:00 Berlin to asia/kolkata",
     "9:00 Tokyo to Kolkata", "13:00 XX", "9:00 Berlin to constructor"}

\* favorites preferences: empty, blank, repeated entries, several spellings
\* of one zone, unresolvable and empty entries
FavoriteStrings ==
    {"", "   ", "Tokyo", "Tokyo, Tokyo", "Berlin, Europe/Berlin, europe/berlin",
     "Asia/Kolkata, asia/kolkata", "IST, Kolkata", "CET, Nonexistent, Tokyo",
     "Nonexistent", " , ,", "Nowhere,, XX , Tokyo", "NYC, New York, America/New_York",
     ",Tokyo,", "XX,IST"}

InitTargets ==
    /\ now \in {[year |-> 2027, month |-> 1, day |-> 31]}
    /\ localIana \in {"Europe/Berlin", "Asia/Kolkata"}
    /\ favoriteTimezones \in FavoriteStrings
    /\ Idle
    /\ args \in { [query |-> q, parsed |-> parseQuery(q),
                   favoriteSetting |-> favoriteTimezones] : q \in TargetQueries }
                  \cup { [favoriteSetting |-> favoriteTimezones] }

\* a call of getTargetTimezones: the list it returns, or the TypeError of
\* resolveTimezone for a target that is no string
CallGetTargetTimezones ==
    /\ op = "init"
    /\ "parsed" \in DOMAIN args
    /\ op' = "getTargetTimezones"
    /\ ret' = IF getTargetTimezonesThrows(args.parsed)
              THEN [threw |-> TRUE, targets |-> << >>]
              ELSE [threw |-> FALSE,
                    targets |-> getTargetTimezones(args.parsed, args.favoriteSetting)]
    /\ UNCHANGED <<host, command, args>>

CallGetInvalidFavorites ==
    /\ op = "init"
    /\ "parsed" \notin DOMAIN args
    /\ op' = "getInvalidFavorites"
    /\ ret' = getInvalidFavorites(args.favoriteSetting)
    /\ UNCHANGED <<host, command, args>>

NextTargets == CallGetTargetTimezones \/ CallGetInvalidFavorites

SpecTargets == InitTargets /\ [][NextTargets]_vars

(***************************************************************************)
(* The parser on queries that fail one or several of its checks            *)
(***************************************************************************)

\* the beginnings of the queries, each with the first check of the time it
\* fails: "format" for a text that does not begin with a time, "hour12",
\* "hour24" or "minutes" for a range, "none" for a valid time
TimeTexts ==
    { [text |-> t, fails |-> "format"] : t \in {"", "abc", ":30", "pm"} }
    \cup { [text |-> t, fails |-> "none"] :
             t \in {"9", "9:00", "9.30", "7pm", "12:30am", "0:00", "23:59", "12 PM"} }
    \cup { [text |-> t, fails |-> "hour24"] : t \in {"24", "25:00", "25:60", "99:99"} }
    \cup { [text |-> t, fails |-> "hour12"] :
             t \in {"13pm", "0am", "13:60pm", "0:75 am"} }
    \cup { [text |-> t, fails |-> "minutes"] :
             t \in {"9:60", "12:60am", "23:99", "7:75 pm"} }

\* queries composed of a beginning, a gap, a source phrase and, when there
\* is a target, the word "to" in some letter case and the target phrase
FailingQueries ==
    { [time |-> time, source |-> source, target |-> target,
       query |-> time.text \o gap \o source
                   \o (IF target = << >> THEN "" ELSE to \o target[1])] :
        time \in TimeTexts, gap \in {" ", ""},
        source \in {"", "XX", "Nowhere", "CET", "Berlin", "IST", "Toronto", "Tokyo"},
        to \in {" to ", " TO ", "  To  "},
        target \in Option({"", "XX", "Tokyo", "Toronto", "Tokyo to CET"}) }

InitParseText ==
    /\ now \in {[year |-> 2027, month |-> 1, day |-> 31]}
    /\ localIana = "Europe/Berlin"
    /\ favoriteTimezones = ""
    /\ Idle
    /\ args \in FailingQueries

SpecParseText == InitParseText /\ [][NextParse]_vars

(***************************************************************************)
(* Properties of the converter, checked under SpecConvert                  *)
(***************************************************************************)

\* the instant at which the clock of zone sourceIana shows hours:minutes on
\* the current UTC date
TrueInstant(hours, minutes, sourceIana) ==
    DateUTC(now.year, now.month - 1, now.day, hours, minutes) - HostOffset(sourceIana)

\* the day number of the local date of a zone at an instant
LocalDayNumber(date, timeZone) == (date + HostOffset(timeZone)) \div 1440

\* C1: convertTime(hour, minute, A, B) returns the equivalent wall-clock
\* time in B: on every current UTC date, for zones A and B of fixed offsets
\* offA and offB, the result's hour:minute is (hour:minute - offA + offB)
\* modulo 24 hours.
C1_EquivalentWallClock ==
    op = "convertTime" =>
        LET wall == (args[1] * 60 + args[2] - HostOffset(args[3])
                        + HostOffset(args[4])) % 1440
        IN  /\ ret.hours = wall \div 60
            /\ ret.minutes = wall % 60

\* C2: the dayOffset of convertTime is the signed number of calendar days
\* between the target zone's and the source zone's local dates at the
\* converted instant, on every current date, month boundaries included;
\* 23:00 in America/Los_Angeles is the next day in Asia/Kuala_Lumpur on
\* every date.
C2_DayOffsetIsCalendarDifference ==
    op = "convertTime" =>
        LET instant == TrueInstant(args[1], args[2], args[3])
        IN  /\ ret.dayOffset = LocalDayNumber(instant, args[4])
                                  - LocalDayNumber(instant, args[3])
            /\ (args = <<23, 0, "America/Los_Angeles", "Asia/Kuala_Lumpur">>
                    => ret.dayOffset = 1)

\* C3: converting a time from A to B and the resulting hour and minute from
\* B back to A gives the time again, with the negated dayOffset.
C3_RoundTrip ==
    op = "ReverseConversionView" =>
        \A i \in 1..Len(ret.reverse.targets) :
            ret.reverse.targets[i].ianaId = args[3] =>
                /\ ret.reverse.results[i].hours = args[1]
                /\ ret.reverse.results[i].minutes = args[2]
                /\ ret.reverse.results[i].dayOffset = -ret.forward.dayOffset

(***************************************************************************)
(* Further properties of the converter, checked under SpecConvert          *)
(***************************************************************************)

TwoDigits(n) == String(n \div 10) \o String(n % 10)

\* an offset in minutes as sign, two-digit hours, colon, two-digit minutes
OffsetText(o) ==
    IF o >= 0 THEN "+" \o TwoDigits(o \div 60) \o ":" \o TwoDigits(o % 60)
    ELSE "-" \o TwoDigits((-o) \div 60) \o ":" \o TwoDigits((-o) % 60)

\* C23: the utcOffset of convertTime's result is the true UTC offset of the
\* target zone at the converted instant, written as sign, two-digit hours,
\* colon and two-digit minutes (0 is "+00:00", 330 "+05:30", -480 "-08:00"),
\* on every date, also when the zone's local date and the UTC date lie in
\* different months or years.
C23_UtcOffsetText ==
    op = "convertTime" =>
        /\ ret.utcOffset = OffsetText(HostOffset(args[4]))
        /\ formatUtcOffset(0) = "+00:00"
        /\ formatUtcOffset(330) = "+05:30"
        /\ formatUtcOffset(-480) = "-08:00"

(***************************************************************************)
(* Properties of the command, checked under Spec                           *)
(***************************************************************************)

\* C4: a query whose source is an ambiguous abbreviation, such as
\* "9:00 IST", shows every interpretation: for each candidate zone of the
\* abbreviation the results hold a conversion made from that zone.
C4_AllInterpretationsShown ==
    (/\ op \in {"Mount", "onSearchTextChange"}
     /\ ret.view = "results"
     /\ Len(resolveTimezone(ret.parsed.sourceLabel)) > 1)
    => \A c \in { resolveTimezone(ret.parsed.sourceLabel)[j] :
                    j \in 1..Len(resolveTimezone(ret.parsed.sourceLabel)) } :
          \E i \in 1..Len(ret.results) : ret.conversions[i].sourceIana = c

(***************************************************************************)
(* Properties of the parser, checked under SpecParse                       *)
(***************************************************************************)

StartsWithMeridiem(phrase) == toLowerCase(slice(phrase, 0, 2)) \in {"am", "pm"}

\* the meridiem of a composed query: the one written after the time, else
\* the am or pm the source phrase begins with
MeridiemOf(q) ==
    IF q.ampm # << >> THEN <<toLowerCase(q.ampm[1])>>
    ELSE IF StartsWithMeridiem(q.source) THEN <<toLowerCase(slice(q.source, 0, 2))>>
    ELSE << >>

\* the source-zone phrase of a composed query: what follows the time and
\* its meridiem
SourcePhraseOf(q) ==
    IF q.ampm = << >> /\ StartsWithMeridiem(q.source) THEN trim(sliceFrom(q.source, 2))
    ELSE q.source

MinuteOf(q) == IF q.minute = << >> THEN 0 ELSE q.minute[1]

HourValid(q) ==
    IF MeridiemOf(q) # << >> THEN q.hour \in 1..12 ELSE q.hour \in 0..23

TimeValid(q) == HourValid(q) /\ MinuteOf(q) \in 0..59

NoZones(result) == result.sourceTimezone = "" /\ result.targetTimezone = << >>

\* C5: for every hour in 0..23 and minute in 0..59, parseQuery("H:MM CET")
\* has no error, the hour and minute given, and the source zone
\* Europe/Berlin.
C5_ParseCET ==
    (/\ op = "parseQuery"
     /\ args.source = "CET" /\ args.ampm = << >> /\ args.target = << >>
     /\ args.minute # << >> /\ args.hour \in 0..23 /\ args.minute[1] \in 0..59)
    => /\ ret.error = << >>
       /\ ret.hours = args.hour
       /\ ret.minutes = args.minute[1]
       /\ ret.sourceTimezone = "Europe/Berlin"

\* C6: an hour h in 1..12 followed by am or pm, in any letter case and with
\* or without white space before it, parses to h + 12 for pm unless h = 12
\* (then 12) and to h for am unless h = 12 (then 0); "7pm PST to CET" gives
\* hour 19, source America/Los_Angeles and target Europe/Berlin.
C6_TwelveHourClock ==
    (/\ op = "parseQuery"
     /\ args.ampm # << >> /\ args.hour \in 1..12 /\ MinuteOf(args) \in 0..59)
    => /\ ret.hours = (IF toLowerCase(args.ampm[1]) = "pm"
                       THEN (IF args.hour = 12 THEN 12 ELSE args.hour + 12)
                       ELSE (IF args.hour = 12 THEN 0 ELSE args.hour))
       /\ (args.query = "7pm PST to CET" =>
              /\ ret.hours = 19
              /\ ret.sourceTimezone = "America/Los_Angeles"
              /\ ret.targetTimezone = <<"Europe/Berlin">>)

\* C7: with a meridiem an hour outside 1..12 gives the "hour must be 1-12"
\* error, without one an hour above 23 gives the "hour must be 0-23" error,
\* and with a valid hour a minute above 59 gives the "minutes must be 0-59"
\* error; each of these results has no source and no target zone.
C7_TimeRangeErrors ==
    op = "parseQuery" =>
        /\ (MeridiemOf(args) # << >> /\ args.hour \notin 1..12)
              => ret.error = <<ErrHour12>> /\ NoZones(ret)
        /\ (MeridiemOf(args) = << >> /\ args.hour \notin 0..23)
              => ret.error = <<ErrHour24>> /\ NoZones(ret)
        /\ (HourValid(args) /\ MinuteOf(args) \notin 0..59)
              => ret.error = <<ErrMinutes>> /\ NoZones(ret)

\* "7:60 CET" has been parsed and refused for its minute
C7_Witness ==
    /\ op = "parseQuery"
    /\ args.query = "7:60 CET"
    /\ ret.error = <<ErrMinutes>>

ResolvedEarlier(input) ==
    \/ isValidIana(trim(input))
    \/ isValidIana(ianaGuessOf(trim(input)))
    \/ toLowerCase(trim(input)) \in DOMAIN SHORT_FORM_MAP

\* C9: for every key of the abbreviation table, in any letter case, that no
\* earlier stage resolves, resolveTimezone returns the table's candidate
\* list whole and in table order; "IST" gives Asia/Kolkata, Asia/Jerusalem,
\* Europe/Dublin.
C9_AbbreviationCandidates ==
    (op = "resolveTimezone" /\ toLowerCase(trim(args.input)) \in DOMAIN ABBREVIATION_MAP)
    => /\ ~ResolvedEarlier(args.input)
            => ret = ABBREVIATION_MAP[toLowerCase(trim(args.input))]
       /\ args.input = "IST"
            => ret = <<"Asia/Kolkata", "Asia/Jerusalem", "Europe/Dublin">>

\* "IST" has been resolved to its three candidates
C9_Witness ==
    /\ op = "resolveTimezone"
    /\ args.input = "IST"
    /\ ~ResolvedEarlier(args.input)
    /\ Len(ret) = 3

\* C10: getDisambiguationLabel returns a display string exactly when the
\* lowercased label is a key of the abbreviation table with more than one
\* candidate; the string is the zone's full name when it has one, else the
\* identifier; ("Asia/Kolkata", "IST") gives "India Standard Time".
C10_LabelIffAmbiguous ==
    op = "getDisambiguationLabel" =>
        LET lower == toLowerCase(args.sourceLabel)
            ambiguous == /\ lower \in DOMAIN ABBREVIATION_MAP
                         /\ Len(ABBREVIATION_MAP[lower]) > 1
        IN  /\ ret # << >> <=> ambiguous
            /\ ret # << >> =>
                  ret = (IF args.ianaId \in DOMAIN TIMEZONE_FULL_NAMES
                         THEN <<TIMEZONE_FULL_NAMES[args.ianaId]>>
                         ELSE <<args.ianaId>>)
            /\ (args.ianaId = "Asia/Kolkata" /\ args.sourceLabel = "IST")
                  => ret = <<"India Standard Time">>

(***************************************************************************)
(* Further properties of the resolver, checked under SpecResolve           *)
(***************************************************************************)

Elements(seq) == { seq[i] : i \in 1..Len(seq) }

\* what the tables hold for a key, as a candidate list
TableEntry(k) ==
    IF k \in DOMAIN SHORT_FORM_MAP THEN <<SHORT_FORM_MAP[k]>>
    ELSE IF k \in DOMAIN ABBREVIATION_MAP THEN ABBREVIATION_MAP[k]
    ELSE <<CITY_MAP[k]>>

\* C11: resolution through the tables does not depend on letter case: for
\* every key of the short-form, abbreviation and city tables written all
\* lower, all upper or in title case, resolveTimezone returns what it
\* returns for the key itself, and that is the table entry of the key.
C11_CaseInsensitiveTables ==
    (/\ op = "resolveTimezone"
     /\ toLowerCase(args.input) \in TableKeys
     /\ args.input \in CaseVariants(toLowerCase(args.input)))
    => /\ ret = resolveTimezone(toLowerCase(args.input))
       /\ ret = TableEntry(toLowerCase(args.input))

\* the candidates the precedence of the resolver gives for a trimmed input:
\* the input as a zone name of the host, its title-cased form when that
\* differs, then the entry of the first table that has the lowercased input
\* as a key, else none
ByPrecedence(trimmed) ==
    IF trimmed = "" THEN << >>
    ELSE IF isValidIana(trimmed) THEN <<trimmed>>
    ELSE IF ianaGuessOf(trimmed) # trimmed /\ isValidIana(ianaGuessOf(trimmed))
    THEN <<ianaGuessOf(trimmed)>>
    ELSE IF toLowerCase(trimmed) \in TableKeys THEN TableEntry(toLowerCase(trimmed))
    ELSE << >>

\* C16: resolveTimezone applies a fixed precedence in which the first rule
\* with a result wins: the trimmed input as a valid identifier, its
\* title-cased form when it differs and is valid, the short-form table, the
\* abbreviation table with its full list, the city table, else nothing; an
\* empty or blank input gives nothing.
C16_ResolutionPrecedence ==
    op = "resolveTimezone" => ret = ByPrecedence(trim(args.input))

\* C25: resolving a resolved zone again never fails and changes nothing:
\* for every input and every zone z among its candidates, resolveTimezone(z)
\* is the list of z alone.
C25_ReResolutionIdempotent ==
    op = "resolveTimezone" =>
        \A z \in Elements(ret) : ~IsObject(z) /\ resolveTimezone(z) = <<z>>

\* the tables that have a lowercased input among their keys
TablesWith(lower) ==
    { t \in {"SHORT_FORM_MAP", "ABBREVIATION_MAP", "CITY_MAP"} :
        \/ t = "SHORT_FORM_MAP" /\ lower \in DOMAIN SHORT_FORM_MAP
        \/ t = "ABBREVIATION_MAP" /\ lower \in DOMAIN ABBREVIATION_MAP
        \/ t = "CITY_MAP" /\ lower \in DOMAIN CITY_MAP }

\* C28: the key sets of the short-form, abbreviation and city tables are
\* pairwise disjoint and every key is lowercase, so at most one table has
\* the lowercased input of resolveTimezone as a key and the order of the
\* table stages does not matter.
C28_TableKeysDisjoint ==
    op = "resolveTimezone" =>
        /\ DOMAIN SHORT_FORM_MAP \cap DOMAIN ABBREVIATION_MAP = {}
        /\ DOMAIN SHORT_FORM_MAP \cap DOMAIN CITY_MAP = {}
        /\ DOMAIN ABBREVIATION_MAP \cap DOMAIN CITY_MAP = {}
        /\ \A k \in TableKeys : toLowerCase(k) = k
        /\ Cardinality(TablesWith(toLowerCase(trim(args.input)))) <= 1

\* "NYC" has been resolved through the one table that has it
C28_Witness ==
    /\ op = "resolveTimezone"
    /\ args.input = "NYC"
    /\ TablesWith("nyc") = {"SHORT_FORM_MAP"}
    /\ ret = <<"America/New_York">>

(***************************************************************************)
(* Properties of the target assembly, checked under SpecTargets            *)
(***************************************************************************)

\* the zone of the host an identifier names, whatever its letter case
ZoneOf(ianaId) == IF isValidIana(ianaId) THEN HostZone(ianaId) ELSE ianaId

\* C12: for every parsed query and every favorites preference, the list of
\* getTargetTimezones is returned, names no zone twice (however the zone is
\* spelled in the preference or the query), has at least one element, and
\* has the local zone first.
C12_TargetsDeduplicated ==
    op = "getTargetTimezones" =>
        /\ ~ret.threw
        /\ Len(ret.targets) >= 1
        /\ ret.targets[1].ianaId = localIana
        /\ \A i, j \in 1..Len(ret.targets) :
              i # j => ZoneOf(ret.targets[i].ianaId) # ZoneOf(ret.targets[j].ianaId)

\* an entry of the favorites preference that names no zone
IsInvalidEntry(entry) == entry # "" /\ resolveTimezone(entry) = << >>

\* C13: getInvalidFavorites returns exactly the comma-separated entries of
\* the preference that, trimmed, are non-empty and resolve to no zone, in
\* the order of the preference; nothing for an empty or blank preference;
\* and ["Nonexistent"] for "CET, Nonexistent, Tokyo".
C13_InvalidFavorites ==
    op = "getInvalidFavorites" =>
        /\ ret = SelectSeq(trimAll(split(args.favoriteSetting, ",")), IsInvalidEntry)
        /\ trim(args.favoriteSetting) = "" => ret = << >>
        /\ args.favoriteSetting = "CET, Nonexistent, Tokyo" => ret = <<"Nonexistent">>

C13_Witness ==
    /\ op = "getInvalidFavorites"
    /\ args.favoriteSetting = "Nowhere,, XX , Tokyo"
    /\ ret = <<"Nowhere", "XX">>

\* the target phrase of a query: what follows its first word "to"
TargetPhraseOf(query) ==
    IF matchTO_RE(query) >= 0 THEN trim(sliceFrom(query, matchTO_RE(query) + 2))
    ELSE ""

IsAmbiguous(phrase) == Len(resolveTimezone(phrase)) > 1

TargetIds(targets) == { targets[i].ianaId : i \in 1..Len(targets) }

\* C17: when the target phrase of the query is an ambiguous abbreviation, as
\* in "7pm PST to IST", the list of getTargetTimezones for the parsed query
\* holds every candidate zone of that abbreviation.
C17_AmbiguousTargetExpanded ==
    (/\ op = "getTargetTimezones"
     /\ args.parsed.error = << >>
     /\ IsAmbiguous(TargetPhraseOf(args.query)))
    => /\ ~ret.threw
       /\ Elements(resolveTimezone(TargetPhraseOf(args.query)))
              \subseteq TargetIds(ret.targets)

IsResolvableRaw(raw) == ~IsInvalidEntry(trim(raw))

\* a favorites preference without its entries that name no zone
WithoutInvalid(favoriteSetting) ==
    join(SelectSeq(split(favoriteSetting, ","), IsResolvableRaw), ",")

\* C19: favorites that name no zone change nothing: for a parsed query whose
\* target, when set, is a zone text, getTargetTimezones returns for a
\* preference what it returns for the preference without its unresolvable
\* entries, the local zone and the explicit target are in the list whatever
\* the preference holds, and the parse of the query is the same for every
\* preference.
C19_InvalidFavoritesIgnored ==
    (op = "getTargetTimezones" /\ ~ret.threw) =>
        /\ ret.targets = getTargetTimezones(args.parsed,
                                            WithoutInvalid(args.favoriteSetting))
        /\ localIana \in TargetIds(ret.targets)
        /\ args.parsed.targetTimezone # << >> =>
              args.parsed.targetTimezone[1] \in TargetIds(ret.targets)
        /\ args.parsed = parseQuery(args.query)

C19_Witness ==
    /\ op = "getTargetTimezones"
    /\ args.query = "9:00 Berlin to Tokyo"
    /\ args.favoriteSetting = "Nowhere,, XX , Tokyo"
    /\ localIana = "Asia/Kolkata"
    /\ ~ret.threw
    /\ [i \in 1..Len(ret.targets) |-> ret.targets[i].ianaId]
          = <<"Asia/Kolkata", "Asia/Tokyo">>

\* the zones the entries of a favorites preference contribute, in order
RECURSIVE Contributed(_)
Contributed(entries) ==
    IF Len(entries) = 0 THEN << >>
    ELSE resolveTimezone(Head(entries)) \o Contributed(Tail(entries))

\* what the local zone, the explicit target and the favorites contribute,
\* in this order
Contributions(parsed, favoriteSetting) ==
    <<localIana>> \o parsed.targetTimezone
        \o Contributed(split(favoriteSetting, ","))

\* a sequence without the later occurrences of its elements
RECURSIVE FirstOccurrences(_)
FirstOccurrences(seq) ==
    IF Len(seq) = 0 THEN << >>
    ELSE IF seq[Len(seq)] \in Elements(SubSeq(seq, 1, Len(seq) - 1))
    THEN FirstOccurrences(SubSeq(seq, 1, Len(seq) - 1))
    ELSE Append(FirstOccurrences(SubSeq(seq, 1, Len(seq) - 1)), seq[Len(seq)])

IdsOf(targets) == [i \in 1..Len(targets) |-> targets[i].ianaId]

\* C24: the list of getTargetTimezones is ordered local zone, explicit
\* target, favorites in the order of the preference, and of a zone
\* contributed several times the first occurrence stays: a zone precedes
\* another exactly when it was first contributed earlier.
C24_TargetOrder ==
    (op = "getTargetTimezones" /\ ~ret.threw) =>
        IdsOf(ret.targets)
            = FirstOccurrences(Contributions(args.parsed, args.favoriteSetting))

\* a target that is also a favorite, after a favorite that names no zone
C24_Witness ==
    /\ op = "getTargetTimezones"
    /\ localIana = "Asia/Kolkata"
    /\ args.query = "9:00 Berlin to Tokyo"
    /\ args.favoriteSetting = "CET, Nonexistent, Tokyo"
    /\ ~ret.threw
    /\ IdsOf(ret.targets) = <<"Asia/Kolkata", "Asia/Tokyo", "CET">>

(***************************************************************************)
(* Further properties of the parser, checked under SpecParse               *)
(***************************************************************************)

\* C14: the source zone may be written as a zone identifier, an abbreviation
\* or a city name: for every valid 24-hour time and every phrase p that
\* resolveTimezone maps to at least one zone, parseQuery("H:MM p") and
\* parseQuery("H p") have no error, the source label p and as source zone
\* the first element of resolveTimezone(p).
C14_SourcePhraseForms ==
    (/\ op = "parseQuery"
     /\ args.ampm = << >> /\ args.target = << >>
     /\ args.hour \in 0..23 /\ MinuteOf(args) \in 0..59
     /\ resolveTimezone(args.source) # << >>)
    => /\ ret.error = << >>
       /\ ret.sourceLabel = args.source
       /\ ret.sourceTimezone = resolveTimezone(args.source)[1]

\* C15: for every query parseQuery returns a result, and the result either
\* has an error or has an hour in 0..23, a minute in 0..59 and a source zone
\* that is a non-empty zone identifier among resolveTimezone(sourceLabel);
\* the target zone of a result without error is among the zones
\* resolveTimezone gives for the target phrase.
C15_ParseResultWellFormed ==
    op = "parseQuery" =>
        \/ ret.error # << >>
        \/ /\ ret.hours \in 0..23
           /\ ret.minutes \in 0..59
           /\ ret.sourceTimezone # ""
           /\ isValidIana(ret.sourceTimezone)
           /\ ret.sourceTimezone \in Elements(resolveTimezone(ret.sourceLabel))
           /\ ret.targetTimezone # << >> =>
                 /\ args.target # << >>
                 /\ ret.targetTimezone[1] \in Elements(resolveTimezone(args.target[1]))

(***************************************************************************)
(* The order of the parser's checks, checked under SpecParseText           *)
(***************************************************************************)

\* the error of the first check a composed query fails, in the order: empty
\* query, time format, hour range, minute range, missing source, unknown
\* source, unknown target
FirstFailingCheck(q) ==
    IF trim(q.query) = "" THEN <<ErrEmptyQuery>>
    ELSE IF q.time.fails = "format" THEN <<ErrInvalidFormat>>
    ELSE IF q.time.fails = "hour12" THEN <<ErrHour12>>
    ELSE IF q.time.fails = "hour24" THEN <<ErrHour24>>
    ELSE IF q.time.fails = "minutes" THEN <<ErrMinutes>>
    ELSE IF q.source = "" THEN <<ErrMissingSource>>
    ELSE IF resolveTimezone(q.source) = << >> THEN <<ErrUnknownTimezone(q.source)>>
    ELSE IF q.target # << >> /\ q.target[1] # "" /\ resolveTimezone(q.target[1]) = << >>
    THEN <<ErrUnknownTarget(q.target[1])>>
    ELSE << >>

\* C20: parseQuery reports only the first failing check, in the order empty
\* query, invalid time format, hour range, minute range, missing source,
\* unknown source, unknown target: a query with an hour and a minute out of
\* range has the hour error, one with a minute out of range and an unknown
\* zone the minute error.
C20_FirstFailingCheck ==
    op = "parseQuery" => ret.error = FirstFailingCheck(args)

\* "25:60 XX to XX" fails four checks and has been refused for its hour
C20_Witness ==
    /\ op = "parseQuery"
    /\ args.query = "25:60 XX to XX"
    /\ ret.error = <<ErrHour24>>

(***************************************************************************)
(* Further properties of the parser, checked under SpecParse               *)
(***************************************************************************)

\* C29: the word "to" with nothing after it is no target: for every valid
\* time and every source phrase p that resolves, parseQuery("H:MM p to") has
\* no error, the source zone resolved from p and no target zone.
C29_EmptyTargetIgnored ==
    (/\ op = "parseQuery"
     /\ args.target = <<"">> /\ args.ampm = << >>
     /\ args.hour \in 0..23 /\ MinuteOf(args) \in 0..59
     /\ resolveTimezone(args.source) # << >>)
    => /\ ret.error = << >>
       /\ ret.sourceTimezone = resolveTimezone(args.source)[1]
       /\ ret.targetTimezone = << >>

\* an hour without padding, a colon and the minute in two digits
ClockText(hour, minute) ==
    (IF hour < 10 THEN String(hour) ELSE TwoDigits(hour)) \o ":" \o TwoDigits(minute)

\* C30: formatTime and parseQuery round-trip: for every hour in 0..23 and
\* minute in 0..59 formatTime gives the unpadded hour, a colon and the
\* minute padded to two digits, and parseQuery of that text, a space and a
\* phrase that resolves and does not begin with am or pm returns exactly
\* that hour and minute.
C30_FormatParseRoundTrip ==
    (/\ op = "parseQuery"
     /\ args.ampm = << >> /\ args.target = << >> /\ args.minute # << >>
     /\ args.hour \in 0..23 /\ args.minute[1] \in 0..59
     /\ resolveTimezone(args.source) # << >>
     /\ ~StartsWithMeridiem(args.source))
    => /\ formatTime(args.hour, args.minute[1]) = ClockText(args.hour, args.minute[1])
       /\ args.query = formatTime(args.hour, args.minute[1]) \o " " \o args.source
       /\ ret.error = << >>
       /\ ret.hours = args.hour
       /\ ret.minutes = args.minute[1]

\* "7:05 CET", the text of formatTime(7, 5) and a zone, has been parsed
C30_Witness ==
    /\ op = "parseQuery"
    /\ args.query = "7:05 CET"
    /\ formatTime(7, 5) = "7:05"
    /\ ret.hours = 7
    /\ ret.minutes = 5

(***************************************************************************)
(* Further properties of the command, checked under Spec                   *)
(***************************************************************************)

\* the zones the favorites preference contributes
FavoriteZones == TargetIds(withFavorites(<< >>, favoriteTimezones))

\* a result whose zone is in the list as the local zone, as an unambiguous
\* explicit target or as a favorite
EnteredPlainly(rendered, text, ianaId) ==
    \/ ianaId = localIana
    \/ /\ rendered.parsed.targetTimezone # << >>
       /\ ~IsAmbiguous(TargetPhraseOf(text))
       /\ ianaId = rendered.parsed.targetTimezone[1]
    \/ ianaId \in FavoriteZones

\* C18: a disambiguation label is attached to a result only when its zone
\* was reached through an ambiguous abbreviation: in the results of a query
\* the local zone, an unambiguous explicit target and a favorite carry no
\* label, whatever the source phrase is.
C18_LabelOnlyForAmbiguous ==
    (op \in {"Mount", "onSearchTextChange"} /\ ret.view = "results")
    => \A i \in 1..Len(ret.results) :
          EnteredPlainly(ret, args[1], ret.results[i].ianaId)
              => ret.results[i].label = << >>

\* the command has been launched and its first render did not throw, so
\* that its mount effect has run
Mounted == mounted /\ ~(op = "Mount" /\ ret.view = "crash")

\* the toasts the favorites preference calls for: one when it has an entry
\* that names no zone, else none
ToastsDue == IF Len(getInvalidFavorites(favoriteTimezones)) > 0 THEN 1 ELSE 0

\* C26: the toast about invalid favorites is shown once: over every sequence
\* of search-text changes after the command is mounted (empty texts, texts
\* with parse errors, valid queries) it has been shown exactly once when
\* getInvalidFavorites of the preference is not empty and never otherwise,
\* and no later query shows it again.
C26_ToastOnce ==
    /\ [](Mounted => Len(toasts) = ToastsDue)
    /\ [][mounted => toasts' = toasts]_vars

\* after a change of the search text the one toast of the launch is there
C26_Witness ==
    /\ op = "onSearchTextChange"
    /\ ret.view = "results"
    /\ Len(toasts) = 1
    /\ toasts[1].message = "Nonexistent"

\* C27: in the results of an error-free query, one convertTime result for
\* each target, exactly one result has isLocal = true and it is the first;
\* every result has the zone of the target it was computed for.
C27_OneLocalResult ==
    (op \in {"Mount", "onSearchTextChange"} /\ ret.view = "results") =>
        /\ Len(ret.results) = Len(ret.targets)
        /\ Len(ret.results) >= 1
        /\ \A i \in 1..Len(ret.results) :
              /\ ret.results[i].isLocal = (i = 1)
              /\ ret.results[i].ianaId = ret.targets[i].ianaId

\* results in which a favorite names the local zone in two further ways
C27_Witness ==
    /\ op \in {"Mount", "onSearchTextChange"}
    /\ ret.view = "results"
    /\ localIana = "Asia/Kolkata"
    /\ favoriteTimezones = "Asia/Jerusalem, asia/kolkata, IST,, Nowhere, XX"
    /\ Len(ret.results) >= 4
    /\ ret.results[1].isLocal

(***************************************************************************)
(* The split of a query into source and target, checked under              *)
(* SpecParseText                                                           *)
(***************************************************************************)

HasTarget(q) == q.target # << >> /\ q.target[1] # ""

\* C21: after a valid time parseQuery takes the first occurrence of the
\* word "to", in any letter case, as the separator: the trimmed text before
\* it is the source phrase and the trimmed text after it the target phrase;
\* without it the whole rest is the source phrase and there is no target; a
\* "to" inside a word, as in Toronto or Tokyo, is no separator.
C21_SourceTargetSplit ==
    (op = "parseQuery" /\ args.time.fails = "none" /\ args.source # "") =>
        /\ ret.sourceLabel = args.source
        /\ ret.error # <<ErrMissingSource>>
        /\ (resolveTimezone(args.source) # << >> /\ HasTarget(args)) =>
              IF resolveTimezone(args.target[1]) = << >>
              THEN ret.error = <<ErrUnknownTarget(args.target[1])>>
              ELSE /\ ret.error = << >>
                   /\ ret.targetTimezone = <<resolveTimezone(args.target[1])[1]>>
        /\ (resolveTimezone(args.source) # << >> /\ ~HasTarget(args)) =>
              ret.error = << >> /\ ret.targetTimezone = << >>

\* "9:00 Toronto  To  Tokyo to CET" has been split at its first "To"
C21_Witness ==
    /\ op = "parseQuery"
    /\ args.query = "9:00 Toronto  To  Tokyo to CET"
    /\ ret.sourceLabel = "Toronto"
    /\ ret.error = <<ErrUnknownTarget("Tokyo to CET")>>

\* C22: a query that is a valid time followed by no source phrase, alone or
\* directly followed by "to" and a zone, has the missing-source error and
\* never an unknown-timezone error.
C22_MissingSource ==
    (op = "parseQuery" /\ args.time.fails = "none" /\ args.source = "") =>
        /\ ret.error = <<ErrMissingSource>>
        /\ ret.sourceTimezone = "" /\ ret.sourceLabel = ""

\* "7pm to Tokyo" has been parsed
C22_Witness ==
    /\ op = "parseQuery"
    /\ args.query = "7pm to Tokyo"
    /\ ret.error = <<ErrMissingSource>>

=============================================================================
